---- MODULE Spec2Model ----
(***************************************************************************)
(* Model of the classical SAT engine of 3SAToracle                         *)
(* (src/lib/src/sat_solver.cpp): the clause store, the DPLL search with    *)
(* its simplification and propagation passes, and the instance utilities.  *)
(*                                                                         *)
(* Representation.  A literal is a nonzero integer, a clause a sequence of *)
(* literals, a formula a sequence of clauses.  A std::vector<bool> of size *)
(* n is a sequence of n booleans; C++ index i is position i + 1.           *)
(***************************************************************************)
EXTENDS Integers, Sequences, FiniteSets, TLC

\* ---------------------------------------------------------------- bounds
MaxVar == 2        \* largest variable index a caller passes to add_clause
MaxLen == 3        \* longest clause a caller passes to add_clause
MaxClauses == 2    \* most clauses stored before the caller must clear
EqMaxLen == 2      \* longest clause in an argument of are_equivalent
EqMaxClauses == 2  \* most clauses in an argument of are_equivalent
GenMaxVars == 2    \* largest num_vars passed to generate_random_3sat
GenMaxClauses == 1 \* largest num_clauses passed to generate_random_3sat
GenMaxCalls == 2   \* generate_random_3sat calls in one run
OnceMaxVars == 3   \* largest num_vars of a single generate_random_3sat call
OnceMaxClauses == 1 \* largest num_clauses of a single generate_random_3sat call
SearchMaxVar == 2  \* largest variable of a formula whose search is followed
SearchMaxLen == 2  \* longest clause of such a formula
SearchMaxClauses == 2 \* most clauses of such a formula

Abs(x) == IF x < 0 THEN -x ELSE x

Literals == { l \in (-MaxVar)..MaxVar : l # 0 }

\* Rank of a literal in the order 1, -1, 2, -2, ...
LitRank(l) == IF l > 0 THEN 2 * l ELSE 2 * (-l) + 1

\* The clauses a caller adds: nonzero literals, written in rank order.
Clauses ==
  UNION { { c \in [1..n -> Literals] :
              \A i \in 1..(n - 1) : LitRank(c[i]) <= LitRank(c[i + 1]) }
          : n \in 0..MaxLen }

\* ------------------------------------------------------------ vector<bool>
\* assignment[var]
At(assignment, var) == assignment[var + 1]

\* assignment[var] = value
SetAt(assignment, var, value) == [assignment EXCEPT ![var + 1] = value]

\* std::vector<bool>::assign(n, false)
AllFalse(n) == [i \in 1..n |-> FALSE]

\* std::vector<bool>(v.begin() + 1, v.end()) of a non-empty v
FromSecond(v) == [i \in 1..(Len(v) - 1) |-> v[i + 1]]

\* ---------------------------------------------------------------- simplify
\* The inner loop of simplify over one clause, from literal position i on:
\* stops at the first satisfied literal, erases each falsified literal and
\* steps over any other.  [sat, clause].
RECURSIVE SimplifyClause(_, _, _)
SimplifyClause(clause, i, assignment) ==
  IF i > Len(clause)
  THEN [sat |-> FALSE, clause |-> clause]
  ELSE LET lit == clause[i]
           var == Abs(lit)
           var_value == At(assignment, var)
       IN IF (lit > 0 /\ var_value) \/ (lit < 0 /\ ~var_value)
          THEN [sat |-> TRUE, clause |-> clause]
          ELSE IF (lit > 0 /\ ~var_value) \/ (lit < 0 /\ var_value)
               THEN SimplifyClause(SubSeq(clause, 1, i - 1)
                                     \o SubSeq(clause, i + 1, Len(clause)),
                                   i, assignment)
               ELSE SimplifyClause(clause, i + 1, assignment)

\* simplify(formula, assignment): satisfied clauses are erased, the others
\* keep what the inner loop leaves of them.
RECURSIVE simplify(_, _)
simplify(formula, assignment) ==
  IF formula = <<>>
  THEN <<>>
  ELSE LET s == SimplifyClause(Head(formula), 1, assignment)
           rest == simplify(Tail(formula), assignment)
       IN IF s.sat THEN rest ELSE <<s.clause>> \o rest

\* "for (clause : formula) if (clause.empty())"
HasEmptyClause(formula) == \E i \in 1..Len(formula) : formula[i] = <<>>

\* ---------------------------------------------------------- unit_propagate
\* Position of the first clause of exactly one literal, 0 if there is none.
FirstUnit(formula) ==
  IF \E i \in 1..Len(formula) : Len(formula[i]) = 1
  THEN CHOOSE i \in 1..Len(formula) :
         /\ Len(formula[i]) = 1
         /\ \A j \in 1..(i - 1) : Len(formula[j]) # 1
  ELSE 0

\* The while (changed) loop of unit_propagate: [formula, assignment].  A
\* pass that finds the unit clause at position u sets its variable so that
\* its literal holds, simplifies and starts over; a pass that finds none
\* (u = 0) ends the loop.
RECURSIVE UnitLoop(_, _)
UnitPass(formula, assignment, u) ==
  IF u = 0
  THEN [formula |-> formula, assignment |-> assignment]
  ELSE UnitLoop(simplify(formula,
                         SetAt(assignment, Abs(formula[u][1]), formula[u][1] > 0)),
                SetAt(assignment, Abs(formula[u][1]), formula[u][1] > 0))

UnitLoop(formula, assignment) == UnitPass(formula, assignment, FirstUnit(formula))

\* The scan for empty clauses that ends unit_propagate.
UnitConflict(r) ==
  [conflict |-> HasEmptyClause(r.formula),
   formula |-> r.formula, assignment |-> r.assignment]

\* unit_propagate(formula, assignment): [conflict, formula, assignment].
unit_propagate(formula, assignment) == UnitConflict(UnitLoop(formula, assignment))

\* -------------------------------------------------- pure_literal_eliminate
\* Every literal occurring in the formula.
LiteralsOf(formula) ==
  UNION { { formula[i][j] : j \in 1..Len(formula[i]) } : i \in 1..Len(formula) }

\* std::set<int> positive_literals: the variables occurring unnegated.
PositiveLiterals(formula) == { l \in LiteralsOf(formula) : l > 0 }

\* std::set<int> negative_literals: the variables occurring negated.
NegativeLiterals(formula) == { -l : l \in { k \in LiteralsOf(formula) : k < 0 } }

\* *s.begin() of a non-empty std::set<int>
SetMin(S) == CHOOSE x \in S : \A y \in S : x <= y

\* "assignment[var] = value; simplify(formula, assignment); return true"
PureFix(formula, assignment, var, value) ==
  [found |-> TRUE,
   formula |-> simplify(formula, SetAt(assignment, var, value)),
   assignment |-> SetAt(assignment, var, value)]

\* The two "Find pure literals" loops over the sets pos and neg.
PureFind(formula, assignment, pos, neg) ==
  IF pos \ neg # {}
  THEN PureFix(formula, assignment, SetMin(pos \ neg), TRUE)
  ELSE IF neg \ pos # {}
       THEN PureFix(formula, assignment, SetMin(neg \ pos), FALSE)
       ELSE [found |-> FALSE, formula |-> formula, assignment |-> assignment]

\* pure_literal_eliminate(formula, assignment): [found, formula, assignment].
pure_literal_eliminate(formula, assignment) ==
  PureFind(formula, assignment, PositiveLiterals(formula), NegativeLiterals(formula))

\* --------------------------------------------------------- choose_variable
choose_variable(formula) ==
  LET unassigned_vars == { Abs(l) : l \in LiteralsOf(formula) }
  IN IF unassigned_vars = {} THEN -1 ELSE SetMin(unassigned_vars)

\* -------------------------------------------------------------------- dpll
\* dpll(formula, assignment, var).  formula and assignment are reference
\* parameters: the record holds the return value and what both are left as.
RECURSIVE dpll(_, _, _)

\* "return dpll(formula_copy, assignment, next_var + 1)" with r2 what the
\* recursion on the false branch gave.
DpllFalseTried(formula, r2) ==
  [result |-> r2.result, formula |-> formula, assignment |-> r2.assignment]

\* After the true branch returned r1: success at once, else the false branch
\* on a new copy of formula.
DpllTrueTried(formula, next_var, r1) ==
  IF r1.result
  THEN [result |-> TRUE, formula |-> formula, assignment |-> r1.assignment]
  ELSE DpllFalseTried(
         formula,
         dpll(simplify(formula, SetAt(r1.assignment, next_var, FALSE)),
              SetAt(r1.assignment, next_var, FALSE), next_var + 1))

\* From "int next_var = choose_variable(formula)" on.
DpllBranch(formula, assignment, next_var) ==
  IF next_var = -1
  THEN [result |-> TRUE, formula |-> formula, assignment |-> assignment]
  ELSE DpllTrueTried(
         formula, next_var,
         dpll(simplify(formula, SetAt(assignment, next_var, TRUE)),
              SetAt(assignment, next_var, TRUE), next_var + 1))

\* After pure_literal_eliminate left pl.
DpllEliminated(pl) ==
  IF pl.formula = <<>>
  THEN [result |-> TRUE, formula |-> pl.formula, assignment |-> pl.assignment]
  ELSE DpllBranch(pl.formula, pl.assignment, choose_variable(pl.formula))

\* After unit_propagate returned up.
DpllPropagated(up) ==
  IF up.conflict
  THEN [result |-> FALSE, formula |-> up.formula, assignment |-> up.assignment]
  ELSE DpllEliminated(pure_literal_eliminate(up.formula, up.assignment))

dpll(formula, assignment, var) ==
  IF formula = <<>>
  THEN [result |-> TRUE, formula |-> formula, assignment |-> assignment]
  ELSE IF HasEmptyClause(formula)
       THEN [result |-> FALSE, formula |-> formula, assignment |-> assignment]
       ELSE DpllPropagated(unit_propagate(formula, assignment))

\* ------------------------------------------------------------ solver object
\* SATSolver(): the members after construction.
NewSolver ==
  [formula_ |-> <<>>, num_variables_ |-> 0, assignment_ |-> <<>>,
   has_satisfying_assignment_ |-> FALSE]

\* The loop of add_clause that raises num_variables_ to the largest |lit|.
RECURSIVE UpdateNumVariables(_, _, _)
UpdateNumVariables(clause, i, n) ==
  IF i > Len(clause)
  THEN n
  ELSE UpdateNumVariables(clause, i + 1,
                          IF Abs(clause[i]) > n THEN Abs(clause[i]) ELSE n)

\* add_clause that leaves the cached assignment and its flag as they were.
add_clause_keeps_cache(s, clause) ==
  [formula_ |-> Append(s.formula_, clause),
   num_variables_ |-> UpdateNumVariables(clause, 1, s.num_variables_),
   assignment_ |-> s.assignment_,
   has_satisfying_assignment_ |-> s.has_satisfying_assignment_]

\* add_clause(clause) on solver s.
add_clause(s, clause) ==
  [formula_ |-> Append(s.formula_, clause),
   num_variables_ |-> UpdateNumVariables(clause, 1, s.num_variables_),
   assignment_ |-> <<>>,
   has_satisfying_assignment_ |-> FALSE]

\* clear that forgets to reset num_variables_.
clear_keeps_num_variables(s) ==
  [formula_ |-> <<>>, num_variables_ |-> s.num_variables_,
   assignment_ |-> <<>>, has_satisfying_assignment_ |-> FALSE]

\* clear() on solver s.
clear(s) ==
  [formula_ |-> <<>>, num_variables_ |-> 0, assignment_ |-> <<>>,
   has_satisfying_assignment_ |-> FALSE]

get_num_variables(s) == s.num_variables_

get_num_clauses(s) == Len(s.formula_)

\* The end of is_satisfiable when dpll was handed formula_ itself instead of
\* a copy: r.formula is what the search left of it.
IsSatisfiableDoneNoCopy(s, r) ==
  [ret |-> r.result,
   s |-> [formula_ |-> r.formula,
          num_variables_ |-> s.num_variables_,
          assignment_ |-> r.assignment,
          has_satisfying_assignment_ |-> r.result]]

\* "has_satisfying_assignment_ = result; return result" with r what dpll
\* returned and left of the assignment.
IsSatisfiableDone(s, r) ==
  [ret |-> r.result,
   s |-> [formula_ |-> s.formula_,
          num_variables_ |-> s.num_variables_,
          assignment_ |-> r.assignment,
          has_satisfying_assignment_ |-> r.result]]

\* is_satisfiable() on solver s: [ret, s] with s the members afterwards.
is_satisfiable(s) ==
  IF s.formula_ = <<>>
  THEN [ret |-> TRUE, s |-> s]
  ELSE IsSatisfiableDone(s, dpll(s.formula_, AllFalse(s.num_variables_ + 1), 1))

\* The end of get_satisfying_assignment, q being what is_satisfiable()
\* returned and left, or the solver as it was when the flag was set.
GetFromCache(q) ==
  IF ~q.ret
  THEN [ub |-> FALSE, ret |-> <<>>, s |-> q.s]
  ELSE IF Len(q.s.assignment_) >= 1
       THEN [ub |-> FALSE, ret |-> FromSecond(q.s.assignment_), s |-> q.s]
       ELSE [ub |-> TRUE, ret |-> <<>>, s |-> q.s]

\* get_satisfying_assignment() on solver s: [ub, ret, s].  The copy from
\* assignment_.begin() + 1 is out of range when assignment_ is empty: then ub
\* is TRUE and ret says nothing about what the call produces.
get_satisfying_assignment(s) ==
  GetFromCache(IF s.has_satisfying_assignment_
               THEN [ret |-> TRUE, s |-> s]
               ELSE is_satisfiable(s))

\* The loop of is_3sat from clause position i on: false at the first clause
\* whose size is not 3, true when the clauses run out.
RECURSIVE Is3SatFrom(_, _)
Is3SatFrom(formula, i) ==
  IF i > Len(formula)
  THEN TRUE
  ELSE IF Len(formula[i]) # 3 THEN FALSE ELSE Is3SatFrom(formula, i + 1)

\* is_3sat that only rejects clauses longer than 3.
is_3sat_at_most_3(s) == \A i \in 1..Len(s.formula_) : Len(s.formula_[i]) <= 3

\* is_3sat() on solver s.
is_3sat(s) == Is3SatFrom(s.formula_, 1)

\* A solver that add_clause has loaded with the first n clauses of formula.
RECURSIVE LoadFirst(_, _)
LoadFirst(formula, n) ==
  IF n = 0 THEN NewSolver ELSE add_clause(LoadFirst(formula, n - 1), formula[n])

\* "for (clause : f) solver.add_clause(clause)" on a new solver.
Load(formula) == LoadFirst(formula, Len(formula))

\* --------------------------------------------------------- utils functions
\* are_equivalent(f1, f2)
\* are_equivalent from "if (sat1 != sat2)" on.
EquivalentFrom(sat1, sat2) ==
  IF sat1 # sat2 THEN FALSE ELSE IF ~sat1 THEN TRUE ELSE TRUE

are_equivalent(f1, f2) ==
  EquivalentFrom(is_satisfiable(Load(f1)).ret, is_satisfiable(Load(f2)).ret)

\* "for (int j = 0; j < 3; ++j)": the literals generate_random_3sat draws
\* for one clause.
LiteralsPerClause == 3

\* The draws of a var_dist that starts at 0 instead of 1.
DrawsFromZero(num_vars) == (0..num_vars) \X {0, 1}

\* What one pass of the inner loop draws: var_dist(gen), then sign_dist(gen).
Draws(num_vars) == (1..num_vars) \X {0, 1}

\* The streams std::mt19937 gen(rd()) can yield for one call.  The stream is
\* a function of the seed alone and the seed is whatever std::random_device
\* hands out, so a seed is identified with the stream it yields.
Streams(num_vars, num_clauses) ==
  [1..(LiteralsPerClause * num_clauses) -> Draws(num_vars)]

\* clause.push_back(positive ? var : -var)
DrawnLiteral(d) == IF d[2] = 1 THEN d[1] ELSE -d[1]

\* generate_random_3sat(num_vars, num_clauses) when gen yields stream.
generate_random_3sat(num_vars, num_clauses, stream) ==
  [i \in 1..num_clauses |->
     [j \in 1..LiteralsPerClause |->
        DrawnLiteral(stream[LiteralsPerClause * (i - 1) + j])]]

\* --------------------------------------------------------------- the state
VARIABLES
  formula_,                    \* SATSolver::formula_
  num_variables_,              \* SATSolver::num_variables_
  assignment_,                 \* SATSolver::assignment_
  has_satisfying_assignment_,  \* SATSolver::has_satisfying_assignment_
  op,                          \* the member function called last
  prev_op,                     \* the member function called before it
  arg,                         \* the clause passed to the last add_clause
  ret_bool,                    \* what the last bool-valued call returned
  ret_vec,                     \* what the last get_satisfying_assignment returned
  ub,                          \* "none", or how the last call left defined behaviour
  eq_f1, eq_f2,                \* the arguments of are_equivalent
  eq_done,                     \* are_equivalent has returned
  eq_ret,                      \* what it returned
  gen_calls,                   \* the generate_random_3sat calls made: arguments, result
  frames,                      \* the dpll invocations under way, innermost last
  search,                      \* "idle", or an is_satisfiable() "running" or "done"
  search_ret,                  \* what the dpll invocation that returned last returned
  fixed_vars,                  \* the variables written since assignment_.assign
  last,                        \* the last pass over the formula that wrote a variable
  last_return                  \* the last return of a dpll invocation

solver_vars ==
  <<formula_, num_variables_, assignment_, has_satisfying_assignment_,
    op, prev_op, arg, ret_bool, ret_vec, ub>>

eq_vars == <<eq_f1, eq_f2, eq_done, eq_ret>>

search_vars == <<frames, search, search_ret, fixed_vars, last, last_return>>

vars == <<solver_vars, eq_vars, gen_calls, search_vars>>

\* The solver object the member functions act on.
Self ==
  [formula_ |-> formula_, num_variables_ |-> num_variables_,
   assignment_ |-> assignment_,
   has_satisfying_assignment_ |-> has_satisfying_assignment_]

\* The members become those of s.
Becomes(s) ==
  /\ formula_' = s.formula_
  /\ num_variables_' = s.num_variables_
  /\ assignment_' = s.assignment_
  /\ has_satisfying_assignment_' = s.has_satisfying_assignment_

\* The call op2 follows the call op.
Called(op2) == op' = op2 /\ prev_op' = op

\* What an out-of-range vector<bool> copy can hand back when it returns.
UBVectors == { <<>>, <<FALSE>>, <<TRUE>> }

\* A solver just constructed, no call made on it yet.
SolverInit ==
  /\ formula_ = NewSolver.formula_
  /\ num_variables_ = NewSolver.num_variables_
  /\ assignment_ = NewSolver.assignment_
  /\ has_satisfying_assignment_ = NewSolver.has_satisfying_assignment_
  /\ op = "SATSolver" /\ prev_op = "none"
  /\ arg = <<>> /\ ret_bool = FALSE /\ ret_vec = <<>> /\ ub = "none"

\* No are_equivalent call is under way.
EqIdle == eq_f1 = <<>> /\ eq_f2 = <<>> /\ eq_done = FALSE /\ eq_ret = FALSE

\* No is_satisfiable() call is being followed step by step.
SearchIdle ==
  /\ frames = <<>> /\ search = "idle" /\ search_ret = FALSE /\ fixed_vars = {}
  /\ last = [kind |-> "none", formula |-> <<>>, assignment |-> <<>>,
             var |-> 0, value |-> FALSE, after |-> <<>>, fixed |-> {},
             result |-> <<>>]
  /\ last_return = [on |-> FALSE, result |-> FALSE, direct |-> FALSE,
                    formula |-> <<>>]

Init == SolverInit /\ EqIdle /\ gen_calls = <<>> /\ SearchIdle

\* The process has not been ended by undefined behaviour.
Running == ub # "crash"

AddClause(clause) ==
  /\ Running
  /\ Len(formula_) < MaxClauses
  /\ Becomes(add_clause(Self, clause))
  /\ Called("add_clause")
  /\ arg' = clause /\ ret_bool' = FALSE /\ ret_vec' = <<>> /\ ub' = "none"
  /\ UNCHANGED <<eq_vars, gen_calls, search_vars>>

Clear ==
  /\ Running
  /\ Becomes(clear(Self))
  /\ Called("clear")
  /\ arg' = <<>> /\ ret_bool' = FALSE /\ ret_vec' = <<>> /\ ub' = "none"
  /\ UNCHANGED <<eq_vars, gen_calls, search_vars>>

\* The call returns r.ret and leaves the members r.s.
Returns(r) == Becomes(r.s) /\ ret_bool' = r.ret

IsSatisfiable ==
  /\ Running
  /\ Returns(is_satisfiable(Self))
  /\ Called("is_satisfiable")
  /\ arg' = <<>> /\ ret_vec' = <<>> /\ ub' = "none"
  /\ UNCHANGED <<eq_vars, gen_calls, search_vars>>

\* The call leaves the members r.s and returns r.ret, unless it left defined
\* behaviour: then it returns anything, or ends the process.
ReturnsVector(r) ==
  /\ Becomes(r.s)
  /\ IF r.ub
     THEN \/ ub' = "oob" /\ ret_vec' \in UBVectors
          \/ ub' = "crash" /\ ret_vec' = <<>>
     ELSE ub' = "none" /\ ret_vec' = r.ret

GetSatisfyingAssignment ==
  /\ Running
  /\ ReturnsVector(get_satisfying_assignment(Self))
  /\ Called("get_satisfying_assignment")
  /\ arg' = <<>> /\ ret_bool' = FALSE
  /\ UNCHANGED <<eq_vars, gen_calls, search_vars>>

Is3Sat ==
  /\ Running
  /\ ret_bool' = is_3sat(Self)
  /\ Called("is_3sat")
  /\ arg' = <<>> /\ ret_vec' = <<>> /\ ub' = "none"
  /\ UNCHANGED <<formula_, num_variables_, assignment_,
                 has_satisfying_assignment_, eq_vars, gen_calls, search_vars>>

Next ==
  \/ \E clause \in Clauses : AddClause(clause)
  \/ Clear
  \/ IsSatisfiable
  \/ GetSatisfyingAssignment
  \/ Is3Sat

\* Any interleaving of the member functions on one solver object.
Spec == Init /\ [][Next]_vars

\* The clauses that repeat one literal: [], [1], [1, 1], [-2, -2, -2], ...
UniformClauses ==
  { [i \in 1..n |-> l] : l \in Literals, n \in 0..MaxLen }

NextUniform ==
  \/ \E clause \in UniformClauses : AddClause(clause)
  \/ Clear
  \/ IsSatisfiable
  \/ GetSatisfyingAssignment
  \/ Is3Sat

\* The same interleavings with add_clause fed from the smaller set of
\* clauses, which leaves room for longer clauses, more variables and more
\* clauses per formula.
SpecUniform == Init /\ [][NextUniform]_vars

\* ------------------------------------------------- are_equivalent, alone
\* The formulas a caller passes to are_equivalent.
EqFormulas ==
  UNION { [1..n -> { c \in Clauses : Len(c) <= EqMaxLen }] : n \in 0..EqMaxClauses }

EqInit ==
  /\ SolverInit /\ gen_calls = <<>> /\ SearchIdle
  /\ eq_f1 \in EqFormulas /\ eq_f2 \in EqFormulas
  /\ eq_done = FALSE /\ eq_ret = FALSE

AreEquivalent ==
  /\ ~eq_done
  /\ eq_ret' = are_equivalent(eq_f1, eq_f2)
  /\ eq_done' = TRUE
  /\ UNCHANGED <<solver_vars, eq_f1, eq_f2, gen_calls, search_vars>>

\* One are_equivalent call on any two formulas.
SpecEq == EqInit /\ [][AreEquivalent]_vars

\* ------------------------------------------- generate_random_3sat, alone
GenerateRandom3Sat(num_vars, num_clauses) ==
  /\ Len(gen_calls) < GenMaxCalls
  /\ \E stream \in Streams(num_vars, num_clauses) :
       gen_calls' =
         Append(gen_calls,
                [num_vars |-> num_vars, num_clauses |-> num_clauses,
                 formula |-> generate_random_3sat(num_vars, num_clauses, stream)])
  /\ UNCHANGED <<solver_vars, eq_vars, search_vars>>

GenNext ==
  \E num_vars \in 1..GenMaxVars, num_clauses \in 0..GenMaxClauses :
    GenerateRandom3Sat(num_vars, num_clauses)

\* Successive generate_random_3sat calls, each seeding its own generator.
SpecGen == Init /\ [][GenNext]_vars

\* The first generate_random_3sat call of a run.
GenerateOnce(num_vars, num_clauses) ==
  /\ gen_calls = <<>>
  /\ GenerateRandom3Sat(num_vars, num_clauses)

GenOnceNext ==
  \E num_vars \in 1..OnceMaxVars, num_clauses \in 0..OnceMaxClauses :
    GenerateOnce(num_vars, num_clauses)

\* One generate_random_3sat call, over every stream its generator can yield.
SpecGenOnce == Init /\ [][GenOnceNext]_vars

\* ------------------------------------- is_satisfiable(), followed step by step
\* The dpll invocation on top of the call stack.
Top == frames[Len(frames)]

\* A dpll(formula, assignment_, var) invocation that has just been entered.
\* tried lists the values it has given its branching variable, units the
\* unit literals its unit_propagate has processed, conflict what its
\* unit_propagate returned.
NewFrame(formula, var) ==
  [pc |-> "entry", formula |-> formula, var |-> var, next_var |-> 0,
   tried |-> <<>>, units |-> <<>>, conflict |-> FALSE]

\* An is_satisfiable() call is at label pc of its innermost dpll invocation.
AtPc(pc) == search = "running" /\ Top.pc = pc

\* The innermost invocation moves to label pc; nothing else changes.
Goto(pc) ==
  /\ frames' = [frames EXCEPT ![Len(frames)].pc = pc]
  /\ UNCHANGED <<solver_vars, eq_vars, gen_calls,
                 search, search_ret, fixed_vars, last, last_return>>

\* The label at which a caller resumes when the dpll call it made returns.
ResumeAt(pc) == IF pc = "in_true" THEN "after_true" ELSE "after_false"

\* The outermost dpll returns result to is_satisfiable():
\* "has_satisfying_assignment_ = result; return result".
ReturnToIsSatisfiable(result) ==
  /\ frames' = <<>>
  /\ search' = "done"
  /\ has_satisfying_assignment_' = result
  /\ ret_bool' = result

\* A nested dpll returns to the invocation that called it.
ReturnToCaller ==
  /\ frames' = [SubSeq(frames, 1, Len(frames) - 1)
                  EXCEPT ![Len(frames) - 1].pc = ResumeAt(@)]
  /\ UNCHANGED <<search, has_satisfying_assignment_, ret_bool>>

\* "return result" in dpll; direct when the value is not that of a nested call.
Return(result, direct) ==
  /\ search_ret' = result
  /\ last_return' = [on |-> TRUE, result |-> result, direct |-> direct,
                     formula |-> Top.formula]
  /\ IF Len(frames) = 1 THEN ReturnToIsSatisfiable(result) ELSE ReturnToCaller
  /\ UNCHANGED <<formula_, num_variables_, assignment_, op, prev_op, arg,
                 ret_vec, ub, eq_vars, gen_calls, fixed_vars, last>>

\* "assignment[var] = value" followed by a simplify of formula.
Fix(kind, formula, var, value) ==
  /\ assignment_' = SetAt(assignment_, var, value)
  /\ fixed_vars' = fixed_vars \cup {var}
  /\ last' = [kind |-> kind, formula |-> formula, assignment |-> assignment_,
              var |-> var, value |-> value,
              after |-> SetAt(assignment_, var, value),
              fixed |-> fixed_vars \cup {var},
              result |-> simplify(formula, SetAt(assignment_, var, value))]
  /\ UNCHANGED <<formula_, num_variables_, has_satisfying_assignment_,
                 op, prev_op, arg, ret_bool, ret_vec, ub, eq_vars, gen_calls,
                 search, search_ret, last_return>>

\* is_satisfiable() up to its call of dpll.
BeginIsSatisfiable ==
  /\ search = "idle"
  /\ Called("is_satisfiable")
  /\ arg' = <<>> /\ ret_vec' = <<>> /\ ub' = "none"
  /\ IF formula_ = <<>>
     THEN /\ search' = "done" /\ ret_bool' = TRUE
          /\ UNCHANGED <<assignment_, has_satisfying_assignment_, frames>>
     ELSE /\ search' = "running"
          /\ assignment_' = AllFalse(num_variables_ + 1)
          /\ has_satisfying_assignment_' = FALSE
          /\ frames' = <<NewFrame(formula_, 1)>>
          /\ UNCHANGED ret_bool
  /\ UNCHANGED <<formula_, num_variables_, eq_vars, gen_calls,
                 search_ret, fixed_vars, last, last_return>>

\* The two base cases that open dpll.
EnterDpll ==
  /\ AtPc("entry")
  /\ IF Top.formula = <<>>
     THEN Return(TRUE, TRUE)
     ELSE IF HasEmptyClause(Top.formula)
          THEN Return(FALSE, TRUE)
          ELSE Goto("unit_loop")

\* The unit_propagate pass that sets no value where it should satisfy lit.
UnitFoundInverted(lit) ==
  /\ Fix("unit", Top.formula, Abs(lit), lit < 0)
  /\ frames' = [frames EXCEPT
       ![Len(frames)].formula =
          simplify(Top.formula, SetAt(assignment_, Abs(lit), lit < 0)),
       ![Len(frames)].units = Append(@, lit)]

\* The body of "if (it->size() == 1)" for the unit clause [lit].
UnitFound(lit) ==
  /\ Fix("unit", Top.formula, Abs(lit), lit > 0)
  /\ frames' = [frames EXCEPT
       ![Len(frames)].formula =
          simplify(Top.formula, SetAt(assignment_, Abs(lit), lit > 0)),
       ![Len(frames)].units = Append(@, lit)]

\* One pass of the while (changed) loop of unit_propagate.
UnitPropagatePass ==
  /\ AtPc("unit_loop")
  /\ IF FirstUnit(Top.formula) = 0
     THEN Goto("unit_scan")
     ELSE UnitFound(Top.formula[FirstUnit(Top.formula)][1])

\* The scan for empty clauses that ends unit_propagate, and its return.
UnitPropagateScan ==
  /\ AtPc("unit_scan")
  /\ frames' = [frames EXCEPT
       ![Len(frames)].conflict = HasEmptyClause(Top.formula),
       ![Len(frames)].pc = "propagated"]
  /\ UNCHANGED <<solver_vars, eq_vars, gen_calls,
                 search, search_ret, fixed_vars, last, last_return>>

\* "if (unit_propagate(formula, assignment)) return false"
ConflictCheck ==
  /\ AtPc("propagated")
  /\ IF Top.conflict THEN Return(FALSE, TRUE) ELSE Goto("pure")

\* A "Find pure literals" loop has found var: it is given value.
PureFound(var, value) ==
  /\ Fix("pure", Top.formula, var, value)
  /\ frames' = [frames EXCEPT
       ![Len(frames)].formula =
          simplify(Top.formula, SetAt(assignment_, var, value)),
       ![Len(frames)].pc = "eliminated"]

\* Both loops ran out: pure_literal_eliminate returns false.
PureNone ==
  /\ last' = [kind |-> "pure_none", formula |-> Top.formula,
              assignment |-> assignment_, var |-> 0, value |-> FALSE,
              after |-> assignment_, fixed |-> fixed_vars,
              result |-> Top.formula]
  /\ frames' = [frames EXCEPT ![Len(frames)].pc = "eliminated"]
  /\ UNCHANGED <<solver_vars, eq_vars, gen_calls,
                 search, search_ret, fixed_vars, last_return>>

\* The two loops in the other order: the negative set first.
PureLoopsNegativeFirst(pos, neg) ==
  IF neg \ pos # {}
  THEN PureFound(SetMin(neg \ pos), FALSE)
  ELSE IF pos \ neg # {}
       THEN PureFound(SetMin(pos \ neg), TRUE)
       ELSE PureNone

\* The loops of pure_literal_eliminate over the two sets it has collected.
PureLoops(pos, neg) ==
  IF pos \ neg # {}
  THEN PureFound(SetMin(pos \ neg), TRUE)
  ELSE IF neg \ pos # {}
       THEN PureFound(SetMin(neg \ pos), FALSE)
       ELSE PureNone

\* "pure_literal_eliminate(formula, assignment)" in dpll.
PureLiteralEliminate ==
  /\ AtPc("pure")
  /\ PureLoops(PositiveLiterals(Top.formula), NegativeLiterals(Top.formula))

\* "if (formula.empty()) return true" after the two passes.
SatisfiedCheck ==
  /\ AtPc("eliminated")
  /\ IF Top.formula = <<>> THEN Return(TRUE, TRUE) ELSE Goto("choose")

\* choose_variable has returned next_var.
Chosen(next_var) ==
  IF next_var = -1
  THEN Return(TRUE, TRUE)
  ELSE /\ frames' = [frames EXCEPT ![Len(frames)].next_var = next_var,
                                   ![Len(frames)].pc = "try_true"]
       /\ UNCHANGED <<solver_vars, eq_vars, gen_calls,
                      search, search_ret, fixed_vars, last, last_return>>

\* "int next_var = choose_variable(formula); if (next_var == -1) return true"
ChooseVariable ==
  /\ AtPc("choose")
  /\ Chosen(choose_variable(Top.formula))

\* A branch that calls dpll on the caller's own formula, not on a simplified
\* copy of it.
TryUnsimplified(kind, value, pc) ==
  /\ Fix(kind, Top.formula, Top.next_var, value)
  /\ frames' =
       Append([frames EXCEPT ![Len(frames)].pc = pc,
                             ![Len(frames)].tried = Append(@, value)],
              NewFrame(Top.formula, Top.next_var + 1))

\* "assignment[next_var] = value; formula_copy = formula;
\* simplify(formula_copy, assignment); dpll(formula_copy, assignment,
\* next_var + 1)" up to the entry of the nested dpll.
Try(kind, value, pc) ==
  /\ Fix(kind, Top.formula, Top.next_var, value)
  /\ frames' =
       Append([frames EXCEPT ![Len(frames)].pc = pc,
                             ![Len(frames)].tried = Append(@, value)],
              NewFrame(simplify(Top.formula,
                                SetAt(assignment_, Top.next_var, value)),
                       Top.next_var + 1))

TryTrue == AtPc("try_true") /\ Try("true", TRUE, "in_true")

\* A dpll that goes on to the value false whatever the nested call returned.
TrueReturnedTriesFalse == AtPc("after_true") /\ Goto("try_false")

\* "if (dpll(formula_copy, ...)) return true" once the nested call is back.
TrueReturned ==
  /\ AtPc("after_true")
  /\ IF search_ret THEN Return(TRUE, FALSE) ELSE Goto("try_false")

TryFalse == AtPc("try_false") /\ Try("false", FALSE, "in_false")

\* "return dpll(formula_copy, ...)" once the nested call is back.
FalseReturned ==
  /\ AtPc("after_false")
  /\ Return(search_ret, FALSE)

SearchNext ==
  \/ BeginIsSatisfiable
  \/ EnterDpll
  \/ UnitPropagatePass
  \/ UnitPropagateScan
  \/ ConflictCheck
  \/ PureLiteralEliminate
  \/ SatisfiedCheck
  \/ ChooseVariable
  \/ TryTrue
  \/ TrueReturned
  \/ TryFalse
  \/ FalseReturned

\* A solver that add_clause has loaded with formula, nothing else called yet.
Loaded(formula) ==
  /\ formula_ = Load(formula).formula_
  /\ num_variables_ = Load(formula).num_variables_
  /\ assignment_ = Load(formula).assignment_
  /\ has_satisfying_assignment_ = Load(formula).has_satisfying_assignment_
  /\ op = (IF formula = <<>> THEN "SATSolver" ELSE "add_clause")
  /\ prev_op = (IF Len(formula) = 0 THEN "none"
                ELSE IF Len(formula) = 1 THEN "SATSolver" ELSE "add_clause")
  /\ arg = (IF formula = <<>> THEN <<>> ELSE formula[Len(formula)])
  /\ ret_bool = FALSE /\ ret_vec = <<>> /\ ub = "none"

\* The formulas of at most MaxClauses clauses a caller can have stored.
SearchFormulas == UNION { [1..n -> Clauses] : n \in 0..MaxClauses }

SearchInit ==
  /\ \E formula \in SearchFormulas : Loaded(formula)
  /\ EqIdle /\ gen_calls = <<>> /\ SearchIdle

\* One is_satisfiable() call on any stored formula, one step of the search
\* at a time.
SpecSearch == SearchInit /\ [][SearchNext]_vars

SearchLiterals == { l \in (-SearchMaxVar)..SearchMaxVar : l # 0 }

\* The clauses over distinct variables, written in the order of the variables.
DistinctClauses ==
  UNION { { c \in [1..n -> SearchLiterals] :
              \A i \in 1..(n - 1) : Abs(c[i]) < Abs(c[i + 1]) }
          : n \in 0..SearchMaxLen }

\* The clauses that repeat one literal: [1, 1], [-2, -2], ...
RepeatClauses ==
  { [i \in 1..n |-> l] : l \in SearchLiterals, n \in 2..SearchMaxLen }

PlainFormulas ==
  UNION { [1..n -> DistinctClauses \cup RepeatClauses] : n \in 0..SearchMaxClauses }

SearchPlainInit ==
  /\ \E formula \in PlainFormulas : Loaded(formula)
  /\ EqIdle /\ gen_calls = <<>> /\ SearchIdle

\* The same steps from the formulas whose clauses either repeat no variable
\* or repeat one literal, which leaves room for more variables and clauses.
SpecSearchPlain == SearchPlainInit /\ [][SearchNext]_vars

DistinctFormulas ==
  UNION { [1..n -> DistinctClauses] : n \in 0..SearchMaxClauses }

SearchDistinctInit ==
  /\ \E formula \in DistinctFormulas : Loaded(formula)
  /\ EqIdle /\ gen_calls = <<>> /\ SearchIdle

\* The call runs on one thread that is never suspended for good: a step
\* that can be taken is taken.  From the formulas whose clauses repeat no
\* variable.
SpecSearchFair ==
  SearchDistinctInit /\ [][SearchNext]_vars /\ WF_vars(SearchNext)

\* The stepwise search gives what the recursive definition gives.
SearchAgrees ==
  search = "done" =>
    /\ ret_bool = is_satisfiable(Load(formula_)).ret
    /\ assignment_ = is_satisfiable(Load(formula_)).s.assignment_
    /\ has_satisfying_assignment_ =
         is_satisfiable(Load(formula_)).s.has_satisfying_assignment_

\* ------------------------------------------------------------ propositional
\* Literal lit is true under the total assignment a (a[v] the value of v).
LitTrue(lit, a) == IF lit > 0 THEN a[lit] ELSE ~a[-lit]

\* Every clause of formula has a literal that a makes true.
Satisfies(a, formula) ==
  \A i \in 1..Len(formula) :
    \E j \in 1..Len(formula[i]) : LitTrue(formula[i][j], a)

\* Some total assignment over the variables 1..n satisfies formula.
Satisfiable(formula, n) == \E a \in [1..n -> BOOLEAN] : Satisfies(a, formula)

\* Largest literal magnitude in formula, 0 if it has no literal.
MaxMagnitude(formula) ==
  LET m == { Abs(l) : l \in LiteralsOf(formula) }
  IN IF m = {} THEN 0 ELSE CHOOSE x \in m : \A y \in m : y <= x

\* ------------------------------------------------------------------ claims
\* C1: is_satisfiable() returns true exactly when some total assignment over
\* the variables 1..num_variables satisfies every stored clause, and false
\* exactly when every total assignment falsifies some clause.
C1_DecidesSatisfiability ==
  op = "is_satisfiable" =>
    (ret_bool <=> Satisfiable(formula_, num_variables_))

\* C2: when the stored formula is satisfiable, the assignment that
\* get_satisfying_assignment() returns satisfies every clause of it.
C2_ReturnedAssignmentSatisfies ==
  ( /\ op = "get_satisfying_assignment"
    /\ ub = "none"
    /\ formula_ # <<>>
    /\ Satisfiable(formula_, num_variables_)
    /\ Len(ret_vec) = num_variables_ )
  => Satisfies(ret_vec, formula_)

\* C3: in every solver state, the empty one included,
\* get_satisfying_assignment() stays inside the cached assignment and returns
\* exactly num_variables booleans when is_satisfiable() holds of the stored
\* formula, and the empty sequence when it does not.
C3_AssignmentShape ==
  op = "get_satisfying_assignment" =>
    /\ ub = "none"
    /\ Len(ret_vec) = IF is_satisfiable(Self).ret THEN num_variables_ ELSE 0

\* C4: whatever calls came before, is_satisfiable() and
\* get_satisfying_assignment() answer as a new solver loaded with the clauses
\* now stored would: nothing computed for an earlier formula is returned.
C4_AnswersAsFreshSolver ==
  /\ op = "is_satisfiable" => ret_bool = is_satisfiable(Load(formula_)).ret
  /\ op = "get_satisfying_assignment" =>
       LET fresh == get_satisfying_assignment(Load(formula_))
       IN IF fresh.ub
          THEN ub # "none"
          ELSE ub = "none" /\ ret_vec = fresh.ret

\* A get_satisfying_assignment() right after an add_clause whose clause
\* changed the answer: the formula without it has another assignment.
C4_Witness ==
  /\ op = "get_satisfying_assignment" /\ prev_op = "add_clause"
  /\ Len(formula_) >= 2
  /\ ub = "none"
  /\ LET before == get_satisfying_assignment(
                     Load(SubSeq(formula_, 1, Len(formula_) - 1)))
     IN ~before.ub /\ before.ret # <<>> /\ ret_vec # <<>> /\ before.ret # ret_vec

\* C5: a second is_satisfiable() with no add_clause or clear in between
\* returns the same boolean and leaves the same cached assignment and flag.
C5_IsSatisfiableIdempotent ==
  [][ (op = "is_satisfiable" /\ op' = "is_satisfiable") =>
        /\ ret_bool' = ret_bool
        /\ assignment_' = assignment_
        /\ has_satisfying_assignment_' = has_satisfying_assignment_ ]_vars

\* is_satisfiable() called twice in a row on a stored formula it finds
\* satisfiable.
C5_Witness ==
  /\ op = "is_satisfiable" /\ prev_op = "is_satisfiable"
  /\ formula_ # <<>>
  /\ ret_bool

\* C6: whenever is_satisfiable() returns true, for the empty formula too, the
\* validity flag is set and the cached assignment has index 0 and one entry
\* for every variable 1..num_variables.
C6_TrueLeavesValidCache ==
  (op = "is_satisfiable" /\ ret_bool) =>
    /\ has_satisfying_assignment_
    /\ Len(assignment_) = num_variables_ + 1

\* What a call may do to the clause store.
C7_StoreStep ==
  /\ op' = "add_clause" =>
       /\ formula_' = Append(formula_, arg')
       /\ num_variables_' =
            IF MaxMagnitude(<<arg'>>) > num_variables_
            THEN MaxMagnitude(<<arg'>>) ELSE num_variables_
  /\ op' = "clear" => formula_' = <<>> /\ num_variables_' = 0
  /\ op' \in {"is_satisfiable", "get_satisfying_assignment", "is_3sat"} =>
       /\ formula_' = formula_
       /\ num_variables_' = num_variables_
       /\ get_num_clauses(Self)' = get_num_clauses(Self)

\* What holds of the clause store in every state.
C7_StoreInv ==
  /\ get_num_clauses(Self) = Len(formula_)
  /\ get_num_variables(Self) = MaxMagnitude(formula_)

\* C7: the stored formula is the clauses added since the last clear, verbatim
\* and in order, num_clauses is their number and num_variables the largest
\* literal magnitude among them (0 when there are none); the queries change
\* none of the three.
C7_StoreTracksAddedClauses == []C7_StoreInv /\ [][C7_StoreStep]_vars

\* Two clauses stored after a clear, the largest variable in the first one,
\* and queries run since the last add_clause.
C7_Witness ==
  /\ op = "is_3sat" /\ prev_op = "get_satisfying_assignment"
  /\ Len(formula_) = 2
  /\ num_variables_ > MaxMagnitude(<<formula_[2]>>)
  /\ num_variables_ = MaxVar

\* C8: is_3sat() returns true exactly when every stored clause has exactly
\* 3 literals; once it would return false no further add_clause makes it true.
C8_Is3SatExactlyThree ==
  /\ [](op = "is_3sat" =>
          (ret_bool <=> \A i \in 1..Len(formula_) : Len(formula_[i]) = 3))
  /\ [][ (~is_3sat(Self) /\ op' = "add_clause") => ~is_3sat(Self)' ]_vars

\* is_3sat() returned false on a clause of 2 literals followed by one of 3.
C8_Witness ==
  /\ op = "is_3sat" /\ ~ret_bool
  /\ Len(formula_) = 2
  /\ Len(formula_[1]) = 2 /\ Len(formula_[2]) = 3

\* C9: are_equivalent(f1, f2) is true when both formulas are unsatisfiable
\* and when both are satisfiable, and false when exactly one of them is.
C9_EquivalentIffSameSatisfiability ==
  eq_done =>
    (eq_ret <=> (Satisfiable(eq_f1, MaxMagnitude(eq_f1))
                   <=> Satisfiable(eq_f2, MaxMagnitude(eq_f2))))

\* C10: two generate_random_3sat calls with the same arguments produce the
\* same clause sequence.
C10_GeneratorRepeats ==
  \A i, j \in 1..Len(gen_calls) :
    ( /\ gen_calls[i].num_vars = gen_calls[j].num_vars
      /\ gen_calls[i].num_clauses = gen_calls[j].num_clauses )
    => gen_calls[i].formula = gen_calls[j].formula

\* C11: for num_vars >= 1 and num_clauses >= 0, whatever the generator draws,
\* generate_random_3sat returns exactly num_clauses clauses of exactly 3
\* literals each, every literal nonzero and of magnitude in 1..num_vars;
\* clauses that repeat a variable or hold a literal and its negation are
\* returned like any other.
C11_GeneratedShape ==
  \A c \in 1..Len(gen_calls) :
    /\ gen_calls[c].num_vars >= 1 /\ gen_calls[c].num_clauses >= 0
    /\ Len(gen_calls[c].formula) = gen_calls[c].num_clauses
    /\ \A i \in 1..Len(gen_calls[c].formula) :
         /\ Len(gen_calls[c].formula[i]) = 3
         /\ \A j \in 1..3 :
              /\ gen_calls[c].formula[i][j] # 0
              /\ Abs(gen_calls[c].formula[i][j]) \in 1..gen_calls[c].num_vars

\* A call over more than one variable returned a clause that repeats a
\* variable with both signs: [2, -2, 2].
C11_Witness ==
  /\ Len(gen_calls) = 1
  /\ gen_calls[1].num_vars >= 2
  /\ gen_calls[1].num_clauses = 1
  /\ gen_calls[1].formula = << <<2, -2, 2>> >>

\* The inner loop of a simplify that acts on the variables in fixed only: a
\* literal of any other variable is stepped over.
RECURSIVE FixedOnlyClause(_, _, _, _)
FixedOnlyClause(clause, i, assignment, fixed) ==
  IF i > Len(clause)
  THEN [sat |-> FALSE, clause |-> clause]
  ELSE IF Abs(clause[i]) \notin fixed
       THEN FixedOnlyClause(clause, i + 1, assignment, fixed)
       ELSE IF LitTrue(clause[i], FromSecond(assignment))
            THEN [sat |-> TRUE, clause |-> clause]
            ELSE FixedOnlyClause(SubSeq(clause, 1, i - 1)
                                   \o SubSeq(clause, i + 1, Len(clause)),
                                 i, assignment, fixed)

\* The formula such a simplify leaves.
RECURSIVE FixedOnly(_, _, _, _)
FixedOnly(formula, i, assignment, fixed) ==
  IF i > Len(formula)
  THEN <<>>
  ELSE IF FixedOnlyClause(formula[i], 1, assignment, fixed).sat
       THEN FixedOnly(formula, i + 1, assignment, fixed)
       ELSE <<FixedOnlyClause(formula[i], 1, assignment, fixed).clause>>
              \o FixedOnly(formula, i + 1, assignment, fixed)

\* C12: every simplify of the search (after a unit clause, a pure literal or
\* a branching value has fixed a variable) leaves each literal of a variable
\* not fixed so far in its clause: such a literal is neither removed as
\* falsified nor does it make its clause dropped as satisfied.
C12_SimplifyLeavesUnfixed ==
  last.kind \in {"unit", "pure", "true", "false"} =>
    last.result = FixedOnly(last.formula, 1, last.after, last.fixed)

\* C13: a dpll invocation that returns true has no empty clause in its
\* working formula, and one that returns true of its own (not the value of a
\* nested call) has no clause left at all.
C13_NoSuccessWithEmptyClause ==
  (last_return.on /\ last_return.result) =>
    /\ ~HasEmptyClause(last_return.formula)
    /\ last_return.direct => last_return.formula = <<>>

\* C14: when unit_propagate returns, no clause of exactly one literal is
\* left, every unit literal it processed is true under the assignment, and
\* it has reported a conflict exactly when the formula holds an empty clause.
C14_UnitPropagatePost ==
  AtPc("propagated") =>
    /\ \A i \in 1..Len(Top.formula) : Len(Top.formula[i]) # 1
    /\ \A i \in 1..Len(Top.units) :
         At(assignment_, Abs(Top.units[i])) = (Top.units[i] > 0)
    /\ Top.conflict <=> HasEmptyClause(Top.formula)

\* unit_propagate has processed a unit clause and returns a conflict.
C14_Witness ==
  /\ AtPc("propagated")
  /\ Len(Top.units) >= 1
  /\ Len(formula_) >= 2
  /\ Top.conflict

\* The variables of formula that occur with one sign only.
PureVariables(formula) ==
  { v \in { Abs(l) : l \in LiteralsOf(formula) } :
      ~(v \in LiteralsOf(formula) /\ -v \in LiteralsOf(formula)) }

\* C15: pure_literal_eliminate writes at most one variable; when the formula
\* has a pure variable it writes the one of lowest index among all of them,
\* positive or negative, with the value that satisfies its occurrences, and
\* simplifies; when it has none it writes nothing.
C15_LowestPureVariable ==
  /\ last.kind = "pure" =>
       /\ PureVariables(last.formula) # {}
       /\ last.var = SetMin(PureVariables(last.formula))
       /\ last.value = (last.var \in LiteralsOf(last.formula))
       /\ last.after = SetAt(last.assignment, last.var, last.value)
       /\ last.result = simplify(last.formula, last.after)
  /\ last.kind = "pure_none" =>
       /\ PureVariables(last.formula) = {}
       /\ last.after = last.assignment
       /\ last.result = last.formula

\* The variables of formula that occur unnegated only.
OnlyPositive(formula) ==
  { v \in PureVariables(formula) : v \in LiteralsOf(formula) }

\* The variables of formula that occur negated only.
OnlyNegative(formula) ==
  { v \in PureVariables(formula) : -v \in LiteralsOf(formula) }

\* C15, amended: pure_literal_eliminate writes at most one variable; when
\* some variable occurs unnegated only it writes the lowest such variable
\* true, otherwise when some variable occurs negated only it writes the
\* lowest such variable false, and simplifies; when the formula has no pure
\* variable it writes nothing.
C15_PositiveFirstThenNegative ==
  /\ last.kind = "pure" =>
       /\ PureVariables(last.formula) # {}
       /\ OnlyPositive(last.formula) # {} =>
            /\ last.var = SetMin(OnlyPositive(last.formula))
            /\ last.value = TRUE
       /\ OnlyPositive(last.formula) = {} =>
            /\ last.var = SetMin(OnlyNegative(last.formula))
            /\ last.value = FALSE
       /\ last.after = SetAt(last.assignment, last.var, last.value)
       /\ last.result = simplify(last.formula, last.after)
  /\ last.kind = "pure_none" =>
       /\ PureVariables(last.formula) = {}
       /\ last.after = last.assignment
       /\ last.result = last.formula

\* pure_literal_eliminate has written variable 2 true in a formula where
\* variable 1 occurs negated only.
C15_Witness ==
  /\ last.kind = "pure"
  /\ last.var = 2 /\ last.value = TRUE
  /\ 1 \in OnlyNegative(last.formula)
  /\ AtPc("eliminated")

\* The labels of a dpll invocation from the choice of its branching variable on.
BranchingPcs ==
  {"try_true", "in_true", "after_true", "try_false", "in_false", "after_false"}

\* What holds of every dpll invocation that is branching.
C16_BranchInv ==
  \A i \in 1..Len(frames) :
    /\ frames[i].tried \in {<<>>, <<TRUE>>, <<TRUE, FALSE>>}
    /\ frames[i].pc \in BranchingPcs =>
         /\ frames[i].next_var \in { Abs(l) : l \in LiteralsOf(frames[i].formula) }
         /\ \A l \in LiteralsOf(frames[i].formula) : frames[i].next_var <= Abs(l)
    /\ frames[i].pc \in {"in_true", "after_true", "try_false"} =>
         frames[i].tried = <<TRUE>>
    /\ frames[i].pc \in {"in_false", "after_false"} =>
         frames[i].tried = <<TRUE, FALSE>>

\* The nested call a branch makes: value is written, the nested dpll gets the
\* caller's formula simplified under it, the caller's formula stays.
C16_Calls(value, pc) ==
  /\ Len(frames') = Len(frames) + 1
  /\ assignment_' = SetAt(assignment_, Top.next_var, value)
  /\ frames'[Len(frames)].pc = pc
  /\ frames'[Len(frames)].formula = Top.formula
  /\ frames'[Len(frames')].pc = "entry"
  /\ frames'[Len(frames')].formula = simplify(Top.formula, assignment_')

\* The invocation on top returns result.
C16_Returns(result) ==
  /\ Len(frames') = Len(frames) - 1
  /\ search_ret' = result

\* What a step of a branching dpll invocation does.
C16_BranchStep ==
  /\ AtPc("try_true") => Top.tried = <<>> /\ C16_Calls(TRUE, "in_true")
  /\ (AtPc("after_true") /\ search_ret) => C16_Returns(TRUE)
  /\ (AtPc("after_true") /\ ~search_ret) =>
       frames' = [frames EXCEPT ![Len(frames)].pc = "try_false"]
  /\ AtPc("try_false") => C16_Calls(FALSE, "in_false")
  /\ AtPc("after_false") => C16_Returns(search_ret)
  /\ \A i \in 1..(Len(frames) - 1) :
       i <= Len(frames') =>
         /\ frames'[i].formula = frames[i].formula
         /\ frames'[i].next_var = frames[i].next_var
         /\ frames'[i].tried = frames[i].tried

\* C16: a branching dpll picks the smallest variable of its working formula,
\* calls itself first with the value true on a simplified copy, returns true
\* at once if that call does, and otherwise calls itself once with the value
\* false on a simplified copy of the same formula and returns what that call
\* returns; it gives its variable no value twice.
C16_BranchingOrder == []C16_BranchInv /\ [][C16_BranchStep]_vars

\* A call has ended whose last nested dpll was entered with the value false,
\* after the one with the value true had failed, and succeeded.
C16_Witness ==
  /\ search = "done"
  /\ last.kind = "false"
  /\ ret_bool
  /\ last_return.on /\ ~last_return.direct

\* C17: every is_satisfiable() call on a stored formula returns, and at no
\* moment of it are more than num_variables dpll invocations nested below the
\* outermost one.
C17_TerminatesWithinDepth ==
  /\ <>(search = "done")
  /\ [](Len(frames) - 1 <= num_variables_)

\* A call has returned after a dpll nested one level below the outermost one
\* was entered for each value of the branching variable.
C17_Witness ==
  /\ search = "done"
  /\ last.kind = "false"
  /\ last.var = 1
  /\ num_variables_ = SearchMaxVar
  /\ last_return.on /\ ~last_return.direct

====
